---- MODULE Spec2Model ----
(***************************************************************************)
(* Model of the satisfactory-save-file parser: the chunked zlib reader     *)
(* (src/src/zlib_reader.rs), the string decoder, the world-properties      *)
(* decoder and the top-level save parser (src/src/lib.rs).                 *)
(***************************************************************************)
EXTENDS Integers, Sequences, FiniteSets, TLC

VARIABLES
    \* ---- chunked zlib reader ----
    file,       \* the upstream: a sequence of frames (header + compressed chunk)
    tail,       \* bytes that follow the last frame (fewer than one header)
    exact,      \* TRUE: the inflate session buffers the whole chunk and fills every read
    rpc,        \* "init" before new(), "open" after it succeeded, "failed" after it failed
    pos,        \* position of the upstream; meaningful while the reader does not hold a session
    decoder,    \* Option<ZlibDecoder<Take<R>>>: <<>> is None, <<s>> is Some(s)
    out,        \* every byte the consumer obtained so far, in order
    lastRead,   \* result of the latest call of read()
    reads,      \* number of read() calls made
    eofSeen,    \* a header read ended with UnexpectedEof
    hdrErr,     \* a header read failed with another error
    unwrapped,  \* <<>> or <<[at, chunkEnd]>>: upstream position at the latest unwrap
    \* ---- read_string ----
    build,      \* "debug" or "release"
    sbytes,     \* the byte source
    spos,       \* bytes of the source consumed so far
    sres,       \* sequence of the results of the read_string calls made
    stexts,     \* the texts whose encodings make up sbytes (<<>> for raw bytes)
    \* ---- WorldProperties::new ----
    wpText,     \* the text given to WorldProperties::new
    wpRes,      \* its result (<<>> before the call)
    \* ---- SaveFile::parse ----
    pin,        \* the input of SaveFile::parse, field by field
    pres        \* its result (<<>> before the call)

rvars == <<file, tail, exact, rpc, pos, decoder, out, lastRead, reads, eofSeen, hdrErr, unwrapped>>
svars == <<build, sbytes, spos, sres, stexts>>
wvars == <<wpText, wpRes>>
pvars == <<pin, pres>>
vars == <<rvars, svars, wvars, pvars>>

Min(a, b) == IF a < b THEN a ELSE b
Max(a, b) == IF a < b THEN b ELSE a

RECURSIVE Concat(_)
Concat(ss) == IF ss = <<>> THEN <<>> ELSE Head(ss) \o Concat(Tail(ss))

(***************************************************************************)
(* Chunked zlib reader                                                     *)
(***************************************************************************)

\* Bounds of the reader model.
MaxChunks == 3
MaxBuf == 3
MaxReads == 4

\* 6 x i64 frame header.
HeaderSize == 48
\* i32 "data length" at the start of the inflated stream.
DataLengthSize == 4

\* A frame: clen is compressed_length of its header (negative: try_into fails),
\* dlen the length of the deflate stream inside the chunk, n the length of the
\* inflated content.
FrameShapes ==
    { [clen |-> 6, dlen |-> 6, n |-> 5],     \* data-length + 1 byte
      [clen |-> 6, dlen |-> 6, n |-> 6],     \* data-length + 2 bytes
      [clen |-> 7, dlen |-> 5, n |-> 5],     \* deflate stream ends before compressed_length
      [clen |-> 6, dlen |-> 6, n |-> 4],     \* data-length only
      [clen |-> 3, dlen |-> 3, n |-> 0],     \* empty inflated content
      [clen |-> 0, dlen |-> 0, n |-> 0],     \* compressed_length = 0
      [clen |-> -1, dlen |-> 0, n |-> 0] }   \* negative compressed_length

Phys(f) == IF f.clen > 0 THEN f.clen ELSE 0

RECURSIVE FrameStart(_, _)
FrameStart(fs, i) ==
    IF i <= 1 THEN 0 ELSE FrameStart(fs, i - 1) + HeaderSize + Phys(fs[i - 1])

FileLen(fs, t) == FrameStart(fs, Len(fs) + 1) + t

\* Inflated content of frame i: byte j of chunk i is <<i, j>>.
Content(fs, i) == [j \in 1..fs[i].n |-> <<i, j>>]

\* Inflated content of frame i without its leading data-length.
Payload(fs, i) == SubSeq(Content(fs, i), DataLengthSize + 1, fs[i].n)

None == <<>>
Some(s) == <<s>>

\* ZlibDecoder::new(file.take(chunk_length)): idx = 0 is a session over bytes
\* that are not a frame's chunk.
NewSession(idx, start, clen) ==
    [idx |-> idx, start |-> start, clen |-> clen, pulled |-> 0, produced |-> 0]

\* One read() of the inflate session s with a buffer of n bytes: the set of
\* outcomes the Read contract allows. The session takes its input through the
\* bounded view, so it never pulls more than clen bytes from the upstream.
SessRead(s, n) ==
    IF s.idx = 0
    THEN {[res |-> "err", k |-> 0, s |-> s]}
    ELSE LET f == file[s.idx]
             rem == f.n - s.produced
             ks == IF exact \/ n = 0 \/ rem = 0 THEN {Min(n, rem)} ELSE 1..Min(n, rem)
             Lower(k) == Max(s.pulled,
                             IF k = rem THEN f.dlen ELSE Min(s.produced + k, f.dlen))
             Pulls(k) == IF exact THEN {f.clen} ELSE Lower(k)..f.clen
         IN  UNION { { [res |-> "ok", k |-> k,
                        s |-> [s EXCEPT !.pulled = q, !.produced = s.produced + k]]
                       : q \in Pulls(k) } : k \in ks }

\* read_exact(m bytes) on the session s, as std::io::Read::read_exact does it:
\* read() again and again until m bytes were obtained; Ok(0) is UnexpectedEof.
RECURSIVE ReadExactSess(_, _)
ReadExactSess(s, m) ==
    IF m = 0
    THEN {[res |-> "ok", s |-> s]}
    ELSE UNION { IF r.res = "err" THEN {[res |-> "err", s |-> r.s]}
                 ELSE IF r.k = 0 THEN {[res |-> "eof", s |-> r.s]}
                 ELSE ReadExactSess(r.s, m - r.k)
                 : r \in SessRead(s, m) }

\* ChunkedZLibReader::read_header with the upstream at position p. At a frame's
\* start the six fields are the frame's header; tag and max_chunk_size are only
\* logged. Past the last frame fewer than HeaderSize bytes are left and read_i64
\* fails with UnexpectedEof. Anywhere else the 48 bytes are chunk data: the
\* length they carry is negative (try_into fails) or bounds a view over bytes
\* that are no deflate stream.
ReadHeader(p) ==
    IF \E i \in 1..Len(file) : p = FrameStart(file, i)
    THEN LET i == CHOOSE i \in 1..Len(file) : p = FrameStart(file, i)
         IN  IF file[i].clen < 0
             THEN {[res |-> "err", idx |-> 0, clen |-> 0, pos |-> p + HeaderSize]}
             ELSE {[res |-> "ok", idx |-> i, clen |-> file[i].clen, pos |-> p + HeaderSize]}
    ELSE IF p + HeaderSize > FileLen(file, tail)
    THEN {[res |-> "eof", idx |-> 0, clen |-> 0, pos |-> FileLen(file, tail)]}
    ELSE { [res |-> "err", idx |-> 0, clen |-> 0, pos |-> p + HeaderSize],
           [res |-> "ok", idx |-> 0, clen |-> DataLengthSize, pos |-> p + HeaderSize] }

\* The bytes a session delivers when it goes from s to t.
Delivered(s, t) ==
    IF s.idx = 0 THEN <<>> ELSE SubSeq(Content(file, s.idx), s.produced + 1, t.produced)

Ok(k, n) == Some([res |-> "ok", k |-> k, n |-> n])
Err(why, n) == Some([res |-> why, k |-> 0, n |-> n])

\* ChunkedZLibReader::new
New ==
    /\ rpc = "init"
    /\ \E h \in ReadHeader(0) :
         IF h.res # "ok"
         THEN /\ rpc' = "failed"
              /\ pos' = h.pos
              /\ UNCHANGED decoder
         ELSE \E r \in ReadExactSess(NewSession(h.idx, h.pos, h.clen), DataLengthSize) :
                /\ pos' = r.s.start + r.s.pulled
                /\ IF r.res = "ok"
                   THEN rpc' = "open" /\ decoder' = Some(r.s)
                   ELSE rpc' = "failed" /\ UNCHANGED decoder
    /\ UNCHANGED <<file, tail, exact, out, lastRead, reads, eofSeen, hdrErr, unwrapped>>
    /\ UNCHANGED <<svars, wvars, pvars>>

\* ChunkedZLibReader::read with a buffer of n bytes
Read(n) ==
    /\ rpc = "open"
    /\ reads < MaxReads
    /\ reads' = reads + 1
    /\ IF decoder = None
       THEN /\ lastRead' = Ok(0, n)
            /\ UNCHANGED <<pos, decoder, out, eofSeen, hdrErr, unwrapped>>
       ELSE \E r \in SessRead(decoder[1], n) :
              IF r.res = "err"
              THEN /\ lastRead' = Err("inflate", n)
                   /\ decoder' = Some(r.s)
                   /\ UNCHANGED <<pos, out, eofSeen, hdrErr, unwrapped>>
              ELSE IF r.k < n
              THEN \* End of chunk: into_inner().into_inner(), then read_header
                   LET at == r.s.start + r.s.pulled IN
                   /\ unwrapped' = <<[at |-> at, chunkEnd |-> r.s.start + r.s.clen]>>
                   /\ \E h \in ReadHeader(at) :
                        CASE h.res = "eof" ->
                               /\ lastRead' = Ok(r.k, n)
                               /\ out' = out \o Delivered(decoder[1], r.s)
                               /\ decoder' = None
                               /\ pos' = h.pos
                               /\ eofSeen' = TRUE
                               /\ UNCHANGED hdrErr
                          [] h.res = "err" ->
                               /\ lastRead' = Err("header", n)
                               /\ decoder' = None
                               /\ pos' = h.pos
                               /\ hdrErr' = TRUE
                               /\ UNCHANGED <<out, eofSeen>>
                          [] h.res = "ok" /\ r.k > 0 ->
                               /\ lastRead' = Ok(r.k, n)
                               /\ out' = out \o Delivered(decoder[1], r.s)
                               /\ decoder' = Some(NewSession(h.idx, h.pos, h.clen))
                               /\ pos' = h.pos
                               /\ UNCHANGED <<eofSeen, hdrErr>>
                          [] h.res = "ok" /\ r.k = 0 ->
                               \E r2 \in SessRead(NewSession(h.idx, h.pos, h.clen), n) :
                                 /\ lastRead' = IF r2.res = "err" THEN Err("inflate", n)
                                                                  ELSE Ok(r2.k, n)
                                 /\ out' = out \o Delivered(NewSession(h.idx, h.pos, h.clen), r2.s)
                                 /\ decoder' = Some(r2.s)
                                 /\ pos' = r2.s.start + r2.s.pulled
                                 /\ UNCHANGED <<eofSeen, hdrErr>>
              ELSE /\ lastRead' = Ok(r.k, n)
                   /\ out' = out \o Delivered(decoder[1], r.s)
                   /\ decoder' = Some(r.s)
                   /\ pos' = r.s.start + r.s.pulled
                   /\ UNCHANGED <<eofSeen, hdrErr, unwrapped>>
    /\ UNCHANGED <<file, tail, exact, rpc>>
    /\ UNCHANGED <<svars, wvars, pvars>>

(***************************************************************************)
(* read_string                                                             *)
(***************************************************************************)

I32Min == -2147483647 - 1
I32Max == 2147483647

\* Little-endian bytes of the i32 x (two's complement), i32::to_le_bytes.
I32Bytes(x) ==
    LET y == IF x < 0 THEN x - I32Min ELSE x      \* the low 31 bits
        top == (y \div 16777216) + (IF x < 0 THEN 128 ELSE 0)
    IN  << y % 256, (y \div 256) % 256, (y \div 65536) % 256, top >>

\* read_i32::<LittleEndian> at offset p (0-based) of the byte sequence b.
ReadI32(b, p) ==
    IF p + 4 > Len(b)
    THEN [res |-> "err", v |-> 0]
    ELSE [res |-> "ok",
          v |-> b[p + 1] + 256 * b[p + 2] + 65536 * b[p + 3]
                + 16777216 * (IF b[p + 4] >= 128 THEN b[p + 4] - 256 ELSE b[p + 4])]

Replacement == 65533     \* U+FFFD
IsCont(x) == x >= 128 /\ x <= 191
At(b, i) == IF i <= Len(b) THEN b[i] ELSE -1

\* String::from_utf8_lossy: every maximal ill-formed prefix becomes U+FFFD.
RECURSIVE Utf8Lossy(_, _)
Utf8Lossy(b, i) ==
    IF i > Len(b) THEN <<>>
    ELSE LET b0 == b[i]
             b1 == At(b, i + 1)
             b2 == At(b, i + 2)
             b3 == At(b, i + 3)
             Bad(k) == <<Replacement>> \o Utf8Lossy(b, i + k)
         IN  IF b0 < 128 THEN <<b0>> \o Utf8Lossy(b, i + 1)
             ELSE IF b0 >= 194 /\ b0 <= 223
             THEN IF IsCont(b1)
                  THEN <<(b0 - 192) * 64 + (b1 - 128)>> \o Utf8Lossy(b, i + 2)
                  ELSE Bad(1)
             ELSE IF b0 >= 224 /\ b0 <= 239
             THEN IF ~ (\/ b0 = 224 /\ b1 >= 160 /\ b1 <= 191
                        \/ b0 >= 225 /\ b0 <= 236 /\ IsCont(b1)
                        \/ b0 = 237 /\ b1 >= 128 /\ b1 <= 159
                        \/ b0 >= 238 /\ IsCont(b1))
                  THEN Bad(1)
                  ELSE IF ~ IsCont(b2) THEN Bad(2)
                  ELSE <<(b0 - 224) * 4096 + (b1 - 128) * 64 + (b2 - 128)>>
                       \o Utf8Lossy(b, i + 3)
             ELSE IF b0 >= 240 /\ b0 <= 244
             THEN IF ~ (\/ b0 = 240 /\ b1 >= 144 /\ b1 <= 191
                        \/ b0 >= 241 /\ b0 <= 243 /\ IsCont(b1)
                        \/ b0 = 244 /\ b1 >= 128 /\ b1 <= 143)
                  THEN Bad(1)
                  ELSE IF ~ IsCont(b2) THEN Bad(2)
                  ELSE IF ~ IsCont(b3) THEN Bad(3)
                  ELSE <<(b0 - 240) * 262144 + (b1 - 128) * 4096 + (b2 - 128) * 64
                         + (b3 - 128)>> \o Utf8Lossy(b, i + 4)
             ELSE Bad(1)

\* String::from_utf16_lossy: an unpaired surrogate becomes U+FFFD.
RECURSIVE Utf16Lossy(_, _)
Utf16Lossy(u, i) ==
    IF i > Len(u) THEN <<>>
    ELSE LET u0 == u[i]
             u1 == At(u, i + 1)
         IN  IF u0 < 55296 \/ u0 > 57343 THEN <<u0>> \o Utf16Lossy(u, i + 1)
             ELSE IF u0 <= 56319 /\ u1 >= 56320 /\ u1 <= 57343
             THEN <<65536 + (u0 - 55296) * 1024 + (u1 - 56320)>> \o Utf16Lossy(u, i + 2)
             ELSE <<Replacement>> \o Utf16Lossy(u, i + 1)

\* read_u16_into::<LittleEndian>: n code units from offset p.
U16Units(b, p, n) == [j \in 1..n |-> b[p + 2 * j - 1] + 256 * b[p + 2 * j]]

SOk(text, p) == [res |-> "ok", text |-> text, pos |-> p]
SErr(p) == [res |-> "err", text |-> <<>>, pos |-> p]
SPanic(p) == [res |-> "panic", text |-> <<>>, pos |-> p]

\* Utf16UnitCount without the subtraction of one.
Utf16UnitCountNoSub(length) == (-length) \div 2

\* Number of u16 code units read for a negative length prefix.
Utf16UnitCount(length) == ((-length) - 1) \div 2

\* Number of payload bytes read for a non-negative length prefix.
Utf8ByteCount(length) == IF length = 0 THEN 0 ELSE length - 1

\* read_string on the byte source b at offset p, compiled as bld ("debug"
\* has overflow checks and debug assertions, "release" wraps and has none).
\* For length = i32::MIN the negation overflows: a panic in debug; in release
\* it wraps to i32::MIN, `as usize` sign-extends it to 2^64 - 2^31, and
\* Vec<u16>::resize of (2^64 - 2^31 - 1) / 2 elements exceeds isize::MAX bytes:
\* a capacity-overflow panic.
read_string(b, p, bld) ==
    LET len == ReadI32(b, p) IN
    IF len.res = "err" THEN SErr(p)
    ELSE LET length == len.v
             q == p + 4
             left == Len(b) - q
         IN  IF length < 0
             THEN IF length = I32Min THEN SPanic(q)
                  ELSE LET units == Utf16UnitCount(length)
                       IN  IF units > left \div 2 THEN SErr(q)
                           ELSE SOk(Utf16Lossy(U16Units(b, q, units), 1), q + 2 * units)
             ELSE LET n == Utf8ByteCount(length)
                  IN  IF n > left THEN SErr(q)
                      ELSE IF length > 0
                      THEN IF n + 1 > left THEN SErr(q + n)
                           ELSE IF bld = "debug" /\ b[q + n + 1] # 0 THEN SPanic(q + n + 1)
                           ELSE SOk(Utf8Lossy(SubSeq(b, q + 1, q + n), 1), q + n + 1)
                      ELSE SOk(Utf8Lossy(SubSeq(b, q + 1, q + n), 1), q + n)

\* char::encode_utf8
Utf8Enc(c) ==
    IF c < 128 THEN <<c>>
    ELSE IF c < 2048 THEN <<192 + (c \div 64), 128 + (c % 64)>>
    ELSE IF c < 65536
    THEN <<224 + (c \div 4096), 128 + ((c \div 64) % 64), 128 + (c % 64)>>
    ELSE <<240 + (c \div 262144), 128 + ((c \div 4096) % 64), 128 + ((c \div 64) % 64),
           128 + (c % 64)>>

\* char::encode_utf16
Utf16Enc(c) ==
    IF c < 65536 THEN <<c>>
    ELSE <<55296 + ((c - 65536) \div 1024), 56320 + ((c - 65536) % 1024)>>

U16Bytes(u) == <<u % 256, u \div 256>>

Utf8Bytes(text) == Concat([i \in 1..Len(text) |-> Utf8Enc(text[i])])
Utf16Bytes(text) ==
    LET units == Concat([i \in 1..Len(text) |-> Utf16Enc(text[i])])
    IN  Concat([i \in 1..Len(units) |-> U16Bytes(units[i])])

\* tests::to_encoding: length prefix, data, null terminator.
to_encoding(text) == I32Bytes(Len(Utf8Bytes(text)) + 1) \o Utf8Bytes(text) \o <<0>>

\* The UTF-16 encoding built by tests::test_read_string.
to_encoding16(text) ==
    I32Bytes(-(Len(Utf16Bytes(text)) + 2)) \o Utf16Bytes(text) \o <<0, 0>>

\* The on-disk encoding of one string: enc is "utf8", "utf16" or "zero".
Encode(s) ==
    IF s.enc = "utf8" THEN to_encoding(s.text)
    ELSE IF s.enc = "utf16" THEN to_encoding16(s.text)
    ELSE I32Bytes(0)

\* Bounds of the string model.
MaxText == 1
MaxStrings == 2
MaxRaw == 3

CodePoints == {97, 233, 128512}
SeqsUpTo(S, n) == UNION {[1..k -> S] : k \in 0..n}
Texts == SeqsUpTo(CodePoints, MaxText)
Strings ==
    {[text |-> x, enc |-> e] : x \in Texts, e \in {"utf8", "utf16"}}
    \cup {[text |-> <<>>, enc |-> "zero"]}
RawLengths == {I32Min, I32Min + 1, -5, -4, -3, -1, 0, 1, 2, 3, I32Max}
RawInputs ==
    {I32Bytes(l) \o x : l \in RawLengths, x \in SeqsUpTo({0, 97, 255}, MaxRaw)}
    \cup SeqsUpTo({1}, 3)

ReaderIdle ==
    /\ file = <<>> /\ tail = 0 /\ exact = TRUE /\ rpc = "idle" /\ pos = 0
    /\ decoder = None /\ out = <<>> /\ lastRead = <<>> /\ reads = 0
    /\ eofSeen = FALSE /\ hdrErr = FALSE /\ unwrapped = <<>>
StringIdle == build = "release" /\ sbytes = <<>> /\ spos = 0 /\ sres = <<>> /\ stexts = <<>>
WorldIdle == wpText = <<>> /\ wpRes = <<>>
ParseIdle == pin = <<>> /\ pres = <<>>

StringInit ==
    /\ build \in {"debug", "release"}
    /\ \/ /\ stexts \in UNION {[1..k -> Strings] : k \in 1..MaxStrings}
          /\ sbytes = Concat([i \in 1..Len(stexts) |-> Encode(stexts[i])])
       \/ /\ stexts = <<>>
          /\ sbytes \in RawInputs
    /\ spos = 0
    /\ sres = <<>>
    /\ ReaderIdle /\ WorldIdle /\ ParseIdle

\* One call of read_string on the source, which is left where the call left it.
ReadString ==
    /\ Len(sres) < Max(1, Len(stexts))
    /\ IF sres = <<>> THEN TRUE ELSE sres[Len(sres)].res = "ok"
    /\ LET r == read_string(sbytes, spos, build)
       IN  /\ sres' = Append(sres, r)
           /\ spos' = r.pos
    /\ UNCHANGED <<build, sbytes, stexts>>
    /\ UNCHANGED <<rvars, wvars, pvars>>

StringNext == ReadString
SpecString == StringInit /\ [][StringNext]_vars

(***************************************************************************)
(* WorldProperties::new                                                    *)
(***************************************************************************)

\* A text is a sequence of symbols; "?" and "=" are the two delimiters, every
\* other symbol stands for a run of characters that contains neither.

\* str::split(c): the pieces between the occurrences of c, empty ones included.
RECURSIVE Split(_, _)
Split(s, c) ==
    IF \A i \in 1..Len(s) : s[i] # c
    THEN <<s>>
    ELSE LET i == CHOOSE i \in 1..Len(s) : s[i] = c /\ \A j \in 1..(i - 1) : s[j] # c
         IN  <<SubSeq(s, 1, i - 1)>> \o Split(SubSeq(s, i + 1, Len(s)), c)

\* str::split_once("="): None, or the parts before and after the first "=".
split_once(s) ==
    IF \A i \in 1..Len(s) : s[i] # "="
    THEN None
    ELSE LET i == CHOOSE i \in 1..Len(s) : s[i] = "=" /\ \A j \in 1..(i - 1) : s[j] # "="
         IN  Some([key |-> SubSeq(s, 1, i - 1), value |-> SubSeq(s, i + 1, Len(s))])

\* Segments without skip(1).
SegmentsNoSkip(s) == Split(s, "?")

\* s.split('?').skip(1)
Segments(s) == Tail(Split(s, "?"))

\* collect::<Result<HashMap>>: the pairs in order (a later pair replaces an
\* earlier one with the same key), or the first segment that has no "=".
RECURSIVE Collect(_, _)
Collect(segs, map) ==
    IF segs = <<>> THEN [res |-> "ok", map |-> map]
    ELSE LET kv == split_once(Head(segs))
         IN  IF kv = None THEN [res |-> "malformed", map |-> map]
             ELSE Collect(Tail(segs),
                          [k \in DOMAIN map \cup {kv[1].key} |->
                              IF k = kv[1].key THEN kv[1].value ELSE map[k]])

EmptyMap == [k \in {} |-> <<>>]

\* SessionVisiblity::parse
VisibilityParse(s) ==
    IF s = <<"SV_Private">> THEN Some("SvPrivate")
    ELSE IF s = <<"SV_FriendsOnly">> THEN Some("SvFriendsOnly")
    ELSE IF s = <<"SV_Invalid">> THEN Some("SvInvalid")
    ELSE None

\* SessionVisiblity::from_u8
VisibilityFromU8(n) ==
    IF n = 0 THEN Some("SvPrivate")
    ELSE IF n = 1 THEN Some("SvFriendsOnly")
    ELSE IF n = 2 THEN Some("SvInvalid")
    ELSE None

WErr(why) == [res |-> why]

\* WorldProperties::new
WorldPropertiesNew(s) ==
    LET c == Collect(Segments(s), EmptyMap) IN
    IF c.res # "ok" THEN WErr("malformed")
    ELSE IF <<"startloc">> \notin DOMAIN c.map THEN WErr("missing")
    ELSE IF <<"sessionName">> \notin DOMAIN c.map THEN WErr("missing")
    ELSE IF <<"Visibility">> \notin DOMAIN c.map THEN WErr("missing")
    ELSE IF VisibilityParse(c.map[<<"Visibility">>]) = None THEN WErr("unknown_visibility")
    ELSE [res |-> "ok",
          start_loc |-> c.map[<<"startloc">>],
          session_name |-> c.map[<<"sessionName">>],
          visibility |-> VisibilityParse(c.map[<<"Visibility">>])[1]]

\* Bound of the world-properties model: segments after the first "?".
MaxSegments == 4

SegmentShapes ==
    { <<>>,
      <<"startloc", "=", "Grass Fields">>,
      <<"startloc", "=", "a", "=", "b">>,
      <<"sessionName", "=", "test_file">>,
      <<"Visibility", "=", "SV_Private">>,
      <<"Visibility", "=", "SV_private">>,
      <<"Visibility">>,
      <<"mods", "=", "1">> }

RECURSIVE Join(_)
Join(segs) == IF segs = <<>> THEN <<>> ELSE <<"?">> \o Head(segs) \o Join(Tail(segs))

WorldTexts ==
    { first \o Join(segs) : first \in {<<>>, <<"Persistent_Level">>},
                            segs \in SeqsUpTo(SegmentShapes, MaxSegments) }

WorldInit ==
    /\ wpText \in WorldTexts
    /\ wpRes = <<>>
    /\ ReaderIdle /\ StringIdle /\ ParseIdle

WorldNew ==
    /\ wpRes = <<>>
    /\ wpRes' = <<WorldPropertiesNew(wpText)>>
    /\ UNCHANGED wpText
    /\ UNCHANGED <<rvars, svars, pvars>>

WorldNext == WorldNew
SpecWorld == WorldInit /\ [][WorldNext]_vars

ReaderStart ==
    /\ file \in UNION {[1..k -> FrameShapes] : k \in 1..MaxChunks}
    /\ tail \in {0, 8}
    /\ rpc = "init"
    /\ pos = 0
    /\ decoder = None
    /\ out = <<>>
    /\ lastRead = None
    /\ reads = 0
    /\ eofSeen = FALSE
    /\ hdrErr = FALSE
    /\ unwrapped = None
    /\ StringIdle /\ WorldIdle /\ ParseIdle

ReaderInit == exact \in BOOLEAN /\ ReaderStart
FlateInit == exact = TRUE /\ ReaderStart

ReaderNext == New \/ \E n \in 0..MaxBuf : Read(n)

\* Every inflate session and upstream the Read contract allows.
SpecReader == ReaderInit /\ [][ReaderNext]_vars

\* Inflate sessions that hold the whole chunk in their buffer and fill the
\* consumer's buffer unless the chunk is exhausted.
SpecFlate == FlateInit /\ [][ReaderNext]_vars

(***************************************************************************)
(* SaveFile::parse                                                         *)
(***************************************************************************)

\* The input of SaveFile::parse, field by field: avail is the number of header
\* fields the source holds before it ends (HeaderFields: all of them); body is
\* "err" when ChunkedZLibReader::new fails, "empty" when the inflated stream
\* ends before the object count, "ok" otherwise; objects is the inflated
\* stream after the count, one entry per object that starts in it, with
\* complete = FALSE when the stream ends inside the object.
HeaderFields == 12

\* i32 -> i64 through TryInto: every i32 is an i64, the conversion cannot fail.
TryIntoI64(x) == Some(x)

PErr(why) == [res |-> "err", why |-> why]

\* SaveObject::parse on the next object of the stream
SaveObjectParse(o) ==
    IF o.tag = 0 THEN (IF o.complete THEN Some("SaveComponent") ELSE None)
    ELSE IF o.tag = 1 THEN (IF o.complete THEN Some("SaveEntity") ELSE None)
    ELSE None

\* The object loop that gives up silently when the stream ends.
RECURSIVE ParseObjectsLenient(_, _, _)
ParseObjectsLenient(objs, k, acc) ==
    IF k = 0 \/ objs = <<>> THEN [res |-> "ok", save_objects |-> acc]
    ELSE LET o == SaveObjectParse(Head(objs))
         IN  IF o = None THEN PErr("object")
             ELSE ParseObjectsLenient(Tail(objs), k - 1, Append(acc, o[1]))

\* for _ in 0..world_object_count { save_objects.push(SaveObject::parse(..)?) }
\* with k iterations left and acc pushed so far. At the end of the stream
\* read_i32 of the tag fails with UnexpectedEof.
RECURSIVE ParseObjects(_, _, _)
ParseObjects(objs, k, acc) ==
    IF k = 0 THEN [res |-> "ok", save_objects |-> acc]
    ELSE IF objs = <<>> THEN PErr("eof")
    ELSE LET o == SaveObjectParse(Head(objs))
         IN  IF o = None THEN PErr("object")
             ELSE ParseObjects(Tail(objs), k - 1, Append(acc, o[1]))

\* SaveFile::parse
parse(i) ==
    IF i.avail < 5 THEN PErr("eof")
    ELSE LET wp == WorldPropertiesNew(i.world_properties) IN
    IF wp.res # "ok" THEN PErr(wp.res)
    ELSE IF i.avail < 7 THEN PErr("eof")
    ELSE LET play_time == TryIntoI64(i.play_time) IN
    IF play_time = None THEN PErr("try_into")
    ELSE IF i.avail < 9 THEN PErr("eof")
    ELSE LET vis == VisibilityFromU8(i.session_visibility) IN
    IF vis = None THEN PErr("visibility")
    ELSE IF i.avail < HeaderFields THEN PErr("eof")
    ELSE IF i.body = "err" THEN PErr("reader")
    ELSE IF i.body = "empty" THEN PErr("eof")
    ELSE LET objs == ParseObjects(i.objects, i.world_object_count, <<>>) IN
    IF objs.res # "ok" THEN objs
    ELSE [res |-> "ok",
          world_properties |-> wp,
          play_time |-> play_time[1],
          session_visibility |-> vis[1],
          is_modded_save |-> i.is_modded_save > 0,
          save_objects |-> objs.save_objects]

\* Bound of the parse model: objects in the inflated stream.
MaxObjects == 3

ObjectStreams ==
    { [j \in 1..Len(tags) |-> [tag |-> tags[j], complete |-> (j < Len(tags)) \/ whole]]
      : tags \in SeqsUpTo({0, 1, 2}, MaxObjects), whole \in BOOLEAN }

Headers ==
    [ world_properties :
          { <<"?", "startloc", "=", "Grass Fields", "?", "sessionName", "=", "test_file",
              "?", "Visibility", "=", "SV_Private">>,
            <<"?", "startloc", "=", "Grass Fields">> },
      play_time : {-1, 0, 1},
      session_visibility : {1, 3},
      is_modded_save : {-1, 0, 2} ]

ParseInputs ==
    { [avail |-> a, world_properties |-> h.world_properties, play_time |-> h.play_time,
       session_visibility |-> h.session_visibility, is_modded_save |-> h.is_modded_save,
       body |-> "err", world_object_count |-> 0, objects |-> <<>>]
      : a \in 0..HeaderFields, h \in Headers }
    \cup
    { [avail |-> HeaderFields, world_properties |-> h.world_properties,
       play_time |-> h.play_time, session_visibility |-> h.session_visibility,
       is_modded_save |-> h.is_modded_save,
       body |-> b, world_object_count |-> n, objects |-> s]
      : h \in Headers, b \in {"ok", "empty"}, n \in 0..(MaxObjects + 1),
        s \in ObjectStreams }

ParseInit ==
    /\ pin \in ParseInputs
    /\ pres = <<>>
    /\ ReaderIdle /\ StringIdle /\ WorldIdle

Parse ==
    /\ pres = <<>>
    /\ pres' = <<parse(pin)>>
    /\ UNCHANGED pin
    /\ UNCHANGED <<rvars, svars, wvars>>

ParseNext == Parse
SpecParse == ParseInit /\ [][ParseNext]_vars

(***************************************************************************)
(* Properties of read_string                                               *)
(***************************************************************************)

EncodedLen(k) == Len(Concat([i \in 1..k |-> Encode(stexts[i])]))

\* C4: read_string returns Ok or Err for every byte sequence and never
\* panics, whatever the length prefix and the terminator byte are.
StringNeverPanics == \A i \in 1..Len(sres) : sres[i].res # "panic"

\* C5: read_string applied to the single-byte encoding of a text t, to its
\* 16-bit encoding, or to the prefix 0 for the empty text, returns t.
StringRoundTrip ==
    (stexts # <<>> /\ Len(sres) >= 1)
        => (sres[1].res = "ok" /\ sres[1].text = stexts[1].text)

StringRoundTripWitness ==
    /\ Len(stexts) >= 1 /\ Len(sres) >= 1
    /\ stexts[1].enc = "utf16"
    /\ stexts[1].text = <<128512>>
    /\ sres[1].res = "ok"

\* C10: each successful read_string consumes exactly the whole encoding of its
\* string (4, 4 + L or 4 + |L| bytes), so strings written back to back decode,
\* call after call, to the same texts.
StringByteAccounting ==
    stexts # <<>> =>
        \A i \in 1..Len(sres) :
            /\ sres[i].res = "ok"
            /\ sres[i].pos = EncodedLen(i)
            /\ sres[i].text = stexts[i].text

(***************************************************************************)
(* Properties of WorldProperties::new                                      *)
(***************************************************************************)

\* The segments of a text, read off the positions of its "?" symbols.
Marks(s) == {i \in 1..Len(s) : s[i] = "?"}
NextMark(s, i) ==
    IF \E j \in Marks(s) : j > i
    THEN CHOOSE j \in Marks(s) : j > i /\ \A k \in Marks(s) : k > i => j <= k
    ELSE Len(s) + 1
SegAfter(s, i) == SubSeq(s, i + 1, NextMark(s, i) - 1)
HasEq(g) == \E j \in 1..Len(g) : g[j] = "="
EqAt(g) == CHOOSE j \in 1..Len(g) : g[j] = "=" /\ \A k \in 1..(j - 1) : g[k] # "="
KeyOf(g) == SubSeq(g, 1, EqAt(g) - 1)
ValueOf(g) == SubSeq(g, EqAt(g) + 1, Len(g))
Has(s, k) == \E i \in Marks(s) : HasEq(SegAfter(s, i)) /\ KeyOf(SegAfter(s, i)) = <<k>>
LastWith(s, k) ==
    CHOOSE i \in Marks(s) :
        /\ HasEq(SegAfter(s, i)) /\ KeyOf(SegAfter(s, i)) = <<k>>
        /\ \A j \in Marks(s) :
              (HasEq(SegAfter(s, j)) /\ KeyOf(SegAfter(s, j)) = <<k>>) => j <= i
Val(s, k) == ValueOf(SegAfter(s, LastWith(s, k)))
Tokens == {<<"SV_Private">>, <<"SV_FriendsOnly">>, <<"SV_Invalid">>}
TokenOf(v) ==
    IF v = "SvPrivate" THEN <<"SV_Private">>
    ELSE IF v = "SvFriendsOnly" THEN <<"SV_FriendsOnly">>
    ELSE <<"SV_Invalid">>

\* What the claim says of the result r for the text s, given which texts
\* count as malformed.
WorldContract(s, r, bad) ==
    LET all == Has(s, "startloc") /\ Has(s, "sessionName") /\ Has(s, "Visibility") IN
    /\ (r.res = "malformed") <=> bad
    /\ ~ bad => ((r.res = "missing") <=> ~ all)
    /\ (~ bad /\ all) =>
          ((r.res = "unknown_visibility") <=> (Val(s, "Visibility") \notin Tokens))
    /\ r.res = "ok" =>
          /\ r.start_loc = Val(s, "startloc")
          /\ r.session_name = Val(s, "sessionName")
          /\ TokenOf(r.visibility) = Val(s, "Visibility")
    /\ s = <<>> => r.res # "ok"

\* C7 as stated: malformed if and only if some non-empty segment after the
\* first lacks "="; otherwise missing, unknown visibility, or the three values.
WorldPropertiesAsStated ==
    wpRes # <<>> =>
        WorldContract(wpText, wpRes[1],
                      \E i \in Marks(wpText) :
                          SegAfter(wpText, i) # <<>> /\ ~ HasEq(SegAfter(wpText, i)))

\* C7 amended: malformed if and only if some segment after the first, empty
\* or not, lacks "="; otherwise missing, unknown visibility, or the three
\* values (of the last segment that gives the key).
WorldPropertiesAmended ==
    wpRes # <<>> =>
        WorldContract(wpText, wpRes[1],
                      \E i \in Marks(wpText) : ~ HasEq(SegAfter(wpText, i)))

\* A text whose only segment without "=" is the empty one after a trailing "?"
\* has been rejected as malformed.
WorldPropertiesWitness ==
    /\ wpRes # <<>>
    /\ wpRes[1].res = "malformed"
    /\ Has(wpText, "startloc") /\ Has(wpText, "sessionName") /\ Has(wpText, "Visibility")
    /\ \A i \in Marks(wpText) : SegAfter(wpText, i) = <<>> \/ HasEq(SegAfter(wpText, i))

(***************************************************************************)
(* Properties of SaveFile::parse                                           *)
(***************************************************************************)

ParsePlayTimeNonNegative ==
    pres # <<>> =>
        /\ pres[1].res = "ok" => pres[1].play_time >= 0
        /\ (pin.avail >= 7 /\ pin.play_time < 0) => pres[1].res = "err"

\* C6: a successful parse sets is_modded_save to TRUE exactly when the raw
\* i32 field is not zero.
ParseIsModdedNonZero ==
    (pres # <<>> /\ pres[1].res = "ok")
        => (pres[1].is_modded_save <=> (pin.is_modded_save # 0))

(***************************************************************************)
(* Properties of ChunkedZLibReader                                         *)
(***************************************************************************)

\* Every frame carries a non-empty chunk whose inflated content starts with
\* the 4-byte data-length.
WellFormed ==
    \A i \in 1..Len(file) :
        file[i].clen > 0 /\ file[i].dlen <= file[i].clen /\ file[i].n >= DataLengthSize

\* The latest read() was given a non-empty buffer and returned Ok(0).
ZeroRead == lastRead # None /\ lastRead[1].res = "ok" /\ lastRead[1].k = 0 /\ lastRead[1].n > 0

\* C1: a consumer that has read a body of k >= 1 chunks up to end-of-stream
\* has obtained the chunks' inflated contents, in order, each without its
\* leading 4-byte data-length.
ReaderConcatenation ==
    (rpc = "open" /\ WellFormed /\ ZeroRead)
        => out = Concat([i \in 1..Len(file) |-> Payload(file, i)])

\* C8: whenever read() unwraps the upstream to read the next frame header, the
\* upstream is at the first byte after the compressed chunk.
ChunkBoundaryAccounting ==
    unwrapped # None => unwrapped[1].at = unwrapped[1].chunkEnd

\* C9: read() returns 0 bytes for a non-empty buffer only after a header read
\* at a chunk boundary ended with UnexpectedEof, after which the session slot
\* stays empty; never while further chunks remain in the upstream, and never
\* after a header read failed with another error.
ReaderEndOfStream ==
    /\ ZeroRead => (eofSeen /\ unwrapped[1].at = unwrapped[1].chunkEnd)
    /\ eofSeen => decoder = None
    /\ ZeroRead => pos >= FrameStart(file, Len(file) + 1)
    /\ hdrErr => ~ ZeroRead

====
